---- MODULE Spec2Model ----
(***************************************************************************)
(* A model of src/chemometrics.py: asym_ls (asymmetric least squares) and  *)
(* emsc (extended multiplicative scatter correction), statement by         *)
(* statement.  A program counter names the source line about to run; each  *)
(* function has a frame (a record keyed by the source's local names); an   *)
(* exception ends the whole call stack, as no caller in the repository     *)
(* catches one.                                                            *)
(*                                                                         *)
(* Numbers are exact rationals <<numerator, denominator>>, so a residual   *)
(* is zero exactly where real arithmetic makes it zero.  An ndarray is a   *)
(* record [ndim, v]: v is a sequence (1-D), a sequence of rows (2-D) or a  *)
(* sequence of 2-D values (3-D).                                           *)
(***************************************************************************)
EXTENDS Integers, Sequences, FiniteSets, TLC

VARIABLES
    n_regressions,  \* the module-level name read at line 65
    fn,             \* the function the caller invoked: "none", "asym_ls", "emsc"
    pc,             \* the source line about to run, "idle" or "done"
    outcome,        \* "none", "return" or the exception that ended the call
    raised_at,      \* the line that raised (0: none)
    result,         \* the value returned to the caller (NoneVal: none)
    prev,           \* the caller's record of its previous asym_ls call
    als,            \* the frame of asym_ls
    em,             \* the frame of emsc
    solves          \* per started sub-fit, the number of np.linalg.lstsq calls

vars == <<n_regressions, fn, pc, outcome, raised_at, result, prev, als, em, solves>>

---------------------------------------------------------------------------
(* Bounds of the model *)

MaxRows == 2

ColCounts == {1, 2}

Values == {0, 1}

POrders == {0, 1}

---------------------------------------------------------------------------
(* Exact rational arithmetic *)

RECURSIVE GCD(_, _)
GCD(a, b) == IF b = 0 THEN a ELSE GCD(b, a % b)

Abs(a) == IF a < 0 THEN -a ELSE a

RNorm(num, den) ==
    LET g == GCD(Abs(num), Abs(den))
        s == IF den < 0 THEN -1 ELSE 1
    IN  <<(s * num) \div g, (s * den) \div g>>

Q(k) == <<k, 1>>

RAdd(a, b) == RNorm(a[1] * b[2] + b[1] * a[2], a[2] * b[2])

RSub(a, b) == RNorm(a[1] * b[2] - b[1] * a[2], a[2] * b[2])

RMul(a, b) == RNorm(a[1] * b[1], a[2] * b[2])

RDiv(a, b) == RNorm(a[1] * b[2], a[2] * b[1])

RLt(a, b) == a[1] * b[2] < b[1] * a[2]

RECURSIVE RPow(_, _)
RPow(a, k) == IF k = 0 THEN Q(1) ELSE RMul(a, RPow(a, k - 1))

RECURSIVE RSum(_)
RSum(s) == IF s = <<>> THEN Q(0) ELSE RAdd(Head(s), RSum(Tail(s)))

---------------------------------------------------------------------------
(* ndarrays *)

NoneVal == [ndim |-> 0, v |-> <<>>]

Arr1(v) == [ndim |-> 1, v |-> v]

Arr2(v) == [ndim |-> 2, v |-> v]

Arr3(v) == [ndim |-> 3, v |-> v]

Shape(A) ==
    CASE A.ndim = 1 -> <<Len(A.v)>>
      [] A.ndim = 2 -> <<Len(A.v), Len(A.v[1])>>
      [] A.ndim = 3 -> <<Len(A.v), Len(A.v[1]), Len(A.v[1][1])>>
      [] OTHER -> <<>>

Size(A) ==
    CASE A.ndim = 1 -> Len(A.v)
      [] A.ndim = 2 -> Len(A.v) * Len(A.v[1])
      [] A.ndim = 3 -> Len(A.v) * Len(A.v[1]) * Len(A.v[1][1])
      [] OTHER -> 1

Zeros(r, c) == Arr2([a \in 1..r |-> [b \in 1..c |-> Q(0)]])

Ones(r, c) == Arr2([a \in 1..r |-> [b \in 1..c |-> Q(1)]])

Dot(A, B) ==
    Arr2([a \in 1..Len(A.v) |-> [b \in 1..Len(B.v[1]) |->
        RSum([k \in 1..Len(B.v) |-> RMul(A.v[a][k], B.v[k][b])])]])

MeanAxis0(A) ==
    Arr1([b \in 1..Len(A.v[1]) |->
        RDiv(RSum([a \in 1..Len(A.v) |-> A.v[a][b]]), Q(Len(A.v)))])

Linspace(num) ==
    [j \in 1..num |-> IF num = 1 THEN Q(-1)
                      ELSE RAdd(Q(-1), RNorm(2 * (j - 1), num - 1))]

---------------------------------------------------------------------------
(* The inputs the callers draw *)

QValues == {Q(k) : k \in Values}

Arrays2(r, c) == {Arr2(v) : v \in [1..r -> [1..c -> QValues]]}

Arrays1(k) == {Arr1(v) : v \in [1..k -> QValues]}

Matrices == UNION {Arrays2(r, c) : r \in 1..MaxRows, c \in ColCounts}

Vectors == UNION {Arrays1(k) : k \in 1..MaxRows}

AsymFactors == {<<1, 10>>, <<1, 2>>, <<9, 10>>}

DefaultAsymFactor == <<1, 10>>

Backgrounds == {NoneVal} \cup UNION {Arrays2(r, 1) : r \in 1..MaxRows}

---------------------------------------------------------------------------
(* The module namespace and the frames *)

ImportNamespaceStale == [n_regressions |-> [bound |-> TRUE, value |-> 0]]

ImportNamespace == [n_regressions |-> [bound |-> FALSE, value |-> 0]]

NoFrame ==
    [caller |-> "none", X |-> NoneVal, y |-> NoneVal, asym_factor |-> Q(0),
     n |-> 0, m |-> 0, o |-> 0, beta |-> NoneVal, i |-> -1,
     w |-> NoneVal, w_new |-> NoneVal, cycle |-> 0]

NewFrame(caller, X, y, asym_factor) ==
    [NoFrame EXCEPT !.caller = caller, !.X = X, !.y = y,
                    !.asym_factor = asym_factor]

NoEmsc ==
    [D |-> NoneVal, p_order |-> 0, background |-> NoneVal, n_series |-> 0,
     n_variables |-> 0, baseline |-> NoneVal, regressor |-> NoneVal,
     beta_background |-> NoneVal, D_bar |-> NoneVal,
     D_pretreated |-> NoneVal, coefficients |-> NoneVal]

NoPrev == [set |-> FALSE, y |-> NoneVal, asym_factor |-> Q(0),
           outcome |-> "none", result |-> NoneVal]

Init ==
    /\ n_regressions = ImportNamespace.n_regressions
    /\ fn = "none"
    /\ pc = "idle"
    /\ outcome = "none"
    /\ raised_at = 0
    /\ result = NoneVal
    /\ prev = NoPrev
    /\ als = NoFrame
    /\ em = NoEmsc
    /\ solves = <<>>

(* An exception propagates through every frame: no caller catches one. *)
Raise(exc, line) ==
    /\ pc' = "done"
    /\ outcome' = exc
    /\ raised_at' = line
    /\ UNCHANGED result

---------------------------------------------------------------------------
(* The callers *)

(* y2 differs from y in exactly one entry of a 2-D array of the same shape. *)
OneEntryChanged(y, y2) ==
    /\ y.ndim = 2 /\ y2.ndim = 2 /\ Shape(y2) = Shape(y)
    /\ Cardinality({<<a, b>> \in (1..Len(y.v)) \X (1..Len(y.v[1])) :
                        y.v[a][b] # y2.v[a][b]}) = 1

(* What a second call changes: a larger asym_factor on the same X and y    *)
(* (the loop of test_location), or one entry of y.                         *)
FollowUps(y, a) ==
    {<<y, a2>> : a2 \in {f \in AsymFactors : RLt(a, f)}}
    \cup {<<y2, a>> : y2 \in {z \in Matrices : OneEntryChanged(y, z)}}

CallAsymLs ==
    /\ pc = "idle"
    /\ \E X \in Matrices, y \in Matrices \cup Vectors, a \in AsymFactors :
           als' = NewFrame("test", X, y, a)
    /\ fn' = "asym_ls"
    /\ pc' = "l61"
    /\ UNCHANGED <<n_regressions, outcome, raised_at, result, prev, em, solves>>

CallAsymLsAgain ==
    /\ pc = "done" /\ fn = "asym_ls" /\ ~prev.set
    /\ \E f \in FollowUps(als.y, als.asym_factor) :
           als' = NewFrame("test", als.X, f[1], f[2])
    /\ prev' = [set |-> TRUE, y |-> als.y, asym_factor |-> als.asym_factor,
                outcome |-> outcome, result |-> result]
    /\ pc' = "l61"
    /\ outcome' = "none"
    /\ raised_at' = 0
    /\ result' = NoneVal
    /\ solves' = <<>>
    /\ UNCHANGED <<n_regressions, fn, em>>

CallEmsc ==
    /\ pc = "idle"
    /\ \E D \in Matrices, p \in POrders, bg \in Backgrounds :
           em' = [NoEmsc EXCEPT !.D = D, !.p_order = p, !.background = bg]
    /\ fn' = "emsc"
    /\ pc' = "e137"
    /\ UNCHANGED <<n_regressions, outcome, raised_at, result, prev, als, solves>>

---------------------------------------------------------------------------
(* asym_ls *)

(* line 61: n, m = X.shape *)
AsymLs61 ==
    /\ pc = "l61"
    /\ IF als.X.ndim = 2
       THEN /\ als' = [als EXCEPT !.n = Shape(als.X)[1], !.m = Shape(als.X)[2]]
            /\ pc' = "l62"
            /\ UNCHANGED <<outcome, raised_at, result>>
       ELSE /\ Raise("ValueError", 61)
            /\ UNCHANGED als
    /\ UNCHANGED <<n_regressions, fn, prev, em, solves>>

(* line 62: o = y.shape[1] *)
AsymLs62 ==
    /\ pc = "l62"
    /\ IF als.y.ndim >= 2
       THEN /\ als' = [als EXCEPT !.o = Shape(als.y)[2]]
            /\ pc' = "l63"
            /\ UNCHANGED <<outcome, raised_at, result>>
       ELSE /\ Raise("IndexError", 62)
            /\ UNCHANGED als
    /\ UNCHANGED <<n_regressions, fn, prev, em, solves>>

(* line 63: beta = np.zeros(shape=[m, o]) *)
AsymLs63 ==
    /\ pc = "l63"
    /\ als' = [als EXCEPT !.beta = Zeros(als.m, als.o)]
    /\ pc' = "l65"
    /\ UNCHANGED <<n_regressions, fn, outcome, raised_at, result, prev, em, solves>>

(* line 86: return beta, to the test or into emsc after line 149 or 155.   *)
(* No call from line 155 returns (its y is 1-D and line 62 raises), so     *)
(* lines 156-164 of emsc have no action.                                   *)
Return86 ==
    CASE als.caller = "emsc149" ->
            /\ em' = [em EXCEPT !.beta_background = als.beta]
            /\ pc' = "e150"
            /\ UNCHANGED <<outcome, raised_at, result>>
      [] als.caller = "emsc155" ->
            /\ pc' = "e156"
            /\ UNCHANGED <<outcome, raised_at, result, em>>
      [] OTHER ->
            /\ pc' = "done"
            /\ outcome' = "return"
            /\ result' = als.beta
            /\ UNCHANGED <<raised_at, em>>

(* line 65: for i in range(n_regressions).  The name is no local and no    *)
(* parameter: it is looked up in the module namespace on every call.       *)
AsymLs65 ==
    /\ pc = "l65"
    /\ IF ~n_regressions.bound
       THEN /\ Raise("NameError", 65)
            /\ UNCHANGED <<als, em, solves>>
       ELSE IF als.i + 1 < n_regressions.value
       THEN /\ als' = [als EXCEPT !.i = als.i + 1]
            /\ solves' = Append(solves, 0)
            /\ pc' = "l67"
            /\ UNCHANGED <<outcome, raised_at, result, em>>
       ELSE /\ Return86
            /\ UNCHANGED <<als, solves>>
    /\ UNCHANGED <<n_regressions, fn, prev>>

---------------------------------------------------------------------------
(* emsc *)

(* line 137: n_series, n_variables = D.shape *)
Emsc137 ==
    /\ pc = "e137"
    /\ IF em.D.ndim = 2
       THEN /\ em' = [em EXCEPT !.n_series = Shape(em.D)[1],
                                !.n_variables = Shape(em.D)[2]]
            /\ pc' = "e139"
            /\ UNCHANGED <<outcome, raised_at, result>>
       ELSE /\ Raise("ValueError", 137)
            /\ UNCHANGED em
    /\ UNCHANGED <<n_regressions, fn, prev, als, solves>>

(* lines 139-142: baseline[:, i] = linspace(-1, 1, n_variables) ** i *)
Baseline(n_variables, p_order) ==
    Arr2([j \in 1..n_variables |-> [k \in 1..(p_order + 1) |->
        RPow(Linspace(n_variables)[j], k - 1)]])

(* lines 139-144: the baseline polynomials, copied into regressor *)
Emsc139 ==
    /\ pc = "e139"
    /\ em' = [em EXCEPT !.baseline = Baseline(em.n_variables, em.p_order),
                        !.regressor = Baseline(em.n_variables, em.p_order)]
    /\ pc' = "e147"
    /\ UNCHANGED <<n_regressions, fn, outcome, raised_at, result, prev, als, solves>>

(* bool(background): None is false, an array of one element is that       *)
(* element's truth, a larger array raises ValueError.                      *)
Truth(a) ==
    CASE a = NoneVal -> "false"
      [] a # NoneVal /\ Size(a) = 1 ->
            IF a.v[1][1] # Q(0) THEN "true" ELSE "false"
      [] OTHER -> "ValueError"

(* line 147: if background: *)
Emsc147 ==
    /\ pc = "e147"
    /\ CASE Truth(em.background) = "true" ->
              pc' = "e149" /\ UNCHANGED <<outcome, raised_at, result>>
         [] Truth(em.background) = "false" ->
              pc' = "e154" /\ UNCHANGED <<outcome, raised_at, result>>
         [] OTHER -> Raise("ValueError", 147)
    /\ UNCHANGED <<n_regressions, fn, prev, als, em, solves>>

(* line 149: beta_background = asym_ls(baseline, background) *)
Emsc149 ==
    /\ pc = "e149"
    /\ als' = NewFrame("emsc149", em.baseline, em.background, DefaultAsymFactor)
    /\ pc' = "l61"
    /\ UNCHANGED <<n_regressions, fn, outcome, raised_at, result, prev, em, solves>>

(* lines 154-155: D_bar = np.mean(D, axis=0); asym_ls(regressor, D_bar) *)
Emsc154 ==
    /\ pc = "e154"
    /\ em' = [em EXCEPT !.D_bar = MeanAxis0(em.D)]
    /\ als' = NewFrame("emsc155", em.regressor, MeanAxis0(em.D), DefaultAsymFactor)
    /\ solves' = <<>>
    /\ pc' = "l61"
    /\ UNCHANGED <<n_regressions, fn, outcome, raised_at, result, prev>>

---------------------------------------------------------------------------
(* asym_ls, lines 66-85: the reweighting loop of response column i *)

max_cycles == 10

(* lines 67-70 *)
AsymLs67 ==
    /\ pc = "l67"
    /\ als' = [als EXCEPT !.w = Zeros(als.n, 1), !.w_new = Ones(als.n, 1),
                          !.cycle = 0]
    /\ pc' = "l72"
    /\ UNCHANGED <<n_regressions, fn, outcome, raised_at, result, prev, em, solves>>

(* line 72: while not np.all(w == w_new) and cycle < max_cycles *)
AsymLs72 ==
    /\ pc = "l72"
    /\ pc' = IF als.w # als.w_new /\ als.cycle < max_cycles THEN "l74" ELSE "l65"
    /\ UNCHANGED <<n_regressions, fn, outcome, raised_at, result, prev, als, em, solves>>

(* Row a of A broadcast along the rows: a single row serves every row. *)
BRow(A, a) == IF Len(A.v) = 1 THEN A.v[1] ELSE A.v[a]

(* Two row counts broadcast together when they agree or one of them is 1. *)
RowsBroadcast(r1, r2) == r1 = r2 \/ r1 = 1 \/ r2 = 1

Max(a, b) == IF a < b THEN b ELSE a

(* lines 76-77: w * A, w of shape (n, 1) *)
Scaled(w, A) ==
    Arr2([a \in 1..Max(Len(w.v), Len(A.v)) |-> [b \in 1..Len(A.v[1]) |->
        RMul(BRow(w, a)[1], BRow(A, a)[b])]])

(* np.linalg.lstsq(A, B, rcond=None)[0] for A of one column: per column of *)
(* B the minimiser of the squared residuals, the minimum-norm one (zero)   *)
(* when A is all zero.                                                     *)
Lstsq1(A, B) ==
    LET den == RSum([a \in 1..Len(A.v) |-> RMul(A.v[a][1], A.v[a][1])])
    IN  Arr2(<<[b \in 1..Len(B.v[1]) |->
            IF den = Q(0) THEN Q(0)
            ELSE RDiv(RSum([a \in 1..Len(A.v) |->
                          RMul(A.v[a][1], B.v[a][b])]), den)]>>)

(* line 81: y - np.dot(X, beta), y broadcast along the rows *)
Residuals(X, y, beta) ==
    LET P == Dot(X, beta)
    IN  Arr2([a \in 1..Max(Len(P.v), Len(y.v)) |-> [b \in 1..Len(P.v[1]) |->
            RSub(BRow(y, a)[b], BRow(P, a)[b])]])

(* lines 82-83: asym_factor where the residual is > 0, else 1 - asym_factor *)
NewWeights(residuals, asym_factor) ==
    Arr2([a \in 1..Len(residuals.v) |->
        <<IF RLt(Q(0), residuals.v[a][1]) THEN asym_factor
          ELSE RSub(Q(1), asym_factor)>>])

(* lines 74-85: one pass of the loop body.  y_scaled needs the row counts  *)
(* of w and y to broadcast (line 77); lstsq needs as many rows in y_scaled *)
(* as in X_scaled (line 79); the assignment to beta[:, i] needs column i   *)
(* to exist and the (m, o) solution to fit its (m,) slot, which it does    *)
(* for m = o = 1 alone (line 79); the mask of line 82 then has w_new's     *)
(* shape.                                                                  *)
AsymLs74 ==
    /\ pc = "l74"
    /\ LET w == als.w_new
           X_scaled == Scaled(w, als.X)
           y_scaled == Scaled(w, als.y)
           sol == Lstsq1(X_scaled, y_scaled)
           residuals == Residuals(als.X, als.y, sol)
       IN  IF ~RowsBroadcast(als.n, Len(als.y.v))
           THEN /\ Raise("ValueError", 77)
                /\ UNCHANGED <<als, solves>>
           ELSE IF Len(als.y.v) # als.n /\ als.n = 1
           THEN /\ Raise("LinAlgError", 79)
                /\ UNCHANGED <<als, solves>>
           ELSE IF als.i >= als.o
           THEN /\ Raise("IndexError", 79)
                /\ solves' = [solves EXCEPT ![Len(solves)] = @ + 1]
                /\ UNCHANGED als
           ELSE IF ~(als.m = 1 /\ als.o = 1)
           THEN /\ Raise("ValueError", 79)
                /\ solves' = [solves EXCEPT ![Len(solves)] = @ + 1]
                /\ UNCHANGED als
           ELSE /\ als' = [als EXCEPT !.w = w, !.beta = sol,
                             !.w_new = NewWeights(residuals, als.asym_factor),
                             !.cycle = als.cycle + 1]
                /\ solves' = [solves EXCEPT ![Len(solves)] = @ + 1]
                /\ pc' = "l72"
                /\ UNCHANGED <<outcome, raised_at, result>>
    /\ UNCHANGED <<n_regressions, fn, prev, em>>

(* lines 150-151: the background less its baseline fit; np.array of two    *)
(* arrays stacks them into a 3-D array when their shapes agree and raises  *)
(* ValueError when only their row counts do.                               *)
Emsc150 ==
    /\ pc = "e150"
    /\ LET fit == Dot(em.baseline, em.beta_background)
           background_pretreated ==
               Arr2([a \in 1..Max(Len(fit.v), Len(em.background.v)) |->
                   [b \in 1..Len(fit.v[1]) |->
                       RSub(BRow(em.background, a)[b], BRow(fit, a)[b])]])
       IN  IF Shape(em.regressor) = Shape(background_pretreated)
           THEN /\ em' = [em EXCEPT !.regressor =
                              Arr3(<<em.regressor.v, background_pretreated.v>>)]
                /\ pc' = "e154"
                /\ UNCHANGED <<outcome, raised_at, result>>
           ELSE /\ Raise("ValueError", 151)
                /\ UNCHANGED em
    /\ UNCHANGED <<n_regressions, fn, prev, als, solves>>

---------------------------------------------------------------------------
(* The module as shipped: nothing binds n_regressions, so lines 66-85 and  *)
(* 150-151 never run; SpecBound below explores them.                       *)

Next ==
    \/ CallAsymLs
    \/ CallAsymLsAgain
    \/ CallEmsc
    \/ AsymLs61
    \/ AsymLs62
    \/ AsymLs63
    \/ AsymLs65
    \/ Emsc137
    \/ Emsc139
    \/ Emsc147
    \/ Emsc149
    \/ Emsc154

Spec == Init /\ [][Next]_vars

---------------------------------------------------------------------------
(* The same module with n_regressions bound in its namespace by the        *)
(* importing program: what lines 66-85 and 150-151 do once line 65 finds   *)
(* the name.                                                               *)

BoundValues == {0, 1, 2}

InitBound ==
    /\ n_regressions \in {[bound |-> TRUE, value |-> k] : k \in BoundValues}
    /\ fn = "none"
    /\ pc = "idle"
    /\ outcome = "none"
    /\ raised_at = 0
    /\ result = NoneVal
    /\ prev = NoPrev
    /\ als = NoFrame
    /\ em = NoEmsc
    /\ solves = <<>>

NextBound ==
    \/ Next
    \/ AsymLs67
    \/ AsymLs72
    \/ AsymLs74
    \/ Emsc150

SpecBound == InitBound /\ [][NextBound]_vars

---------------------------------------------------------------------------
(* What the claims speak of *)

AsymLsDone == pc = "done" /\ fn = "asym_ls"

EmscDone == pc = "done" /\ fn = "emsc"

Returned == outcome = "return"

(* X of shape (n, m) and y of shape (n, o) *)
WellShaped ==
    /\ als.X.ndim = 2 /\ als.y.ndim = 2
    /\ Len(als.X.v) = Len(als.y.v)

(* X and y are arrays whose row counts differ *)
RowMismatch ==
    /\ als.X.ndim = 2 /\ als.y.ndim \in {1, 2}
    /\ Len(als.X.v) # Len(als.y.v)

Half == <<1, 2>>

(* B solves the normal equations of X against y: X^T (y - X B) = 0 *)
IsLeastSquares(X, y, B) ==
    /\ B.ndim = 2
    /\ Shape(B) = <<Len(X.v[1]), Len(y.v[1])>>
    /\ \A j \in 1..Len(X.v[1]), k \in 1..Len(y.v[1]) :
           RSum([a \in 1..Len(X.v) |->
               RMul(X.v[a][j], Residuals(X, y, B).v[a][k])]) = Q(0)

Column(A, k) == [a \in 1..Len(A.v) |-> A.v[a][k]]

StrictlyIncreasing(col) ==
    \A a \in 1..(Len(col) - 1) : RLt(col[a], col[a + 1])

AllZero(A) ==
    /\ A.ndim = 2
    /\ \A a \in 1..Len(A.v), b \in 1..Len(A.v[1]) : A.v[a][b] = Q(0)

(* Every row of D is c * background + d * (the constant baseline), for a   *)
(* background that is not all zero.                                        *)
RowsInSpan(D, background) ==
    /\ background # NoneVal
    /\ Shape(background) = <<Len(D.v[1]), 1>>
    /\ \E b \in 1..Len(background.v) : background.v[b][1] # Q(0)
    /\ \E c \in {Q(1), Q(2)}, d \in {Q(0), Q(1)} :
           \A a \in 1..Len(D.v), b \in 1..Len(D.v[1]) :
               D.v[a][b] = RAdd(RMul(c, background.v[b][1]), d)

(* C1: asym_ls(X, y, asym_factor = 0.5) returns the ordinary               *)
(* least-squares solution of X against y.                                  *)
C1_SymmetricIsLeastSquares ==
    (AsymLsDone /\ WellShaped /\ als.asym_factor = Half)
        => (Returned /\ IsLeastSquares(als.X, als.y, result))

(* C2: for X of shape (n, m) and y of shape (n, o), asym_ls returns        *)
(* normally, with or without convergence, a beta of shape (m, o).          *)
C2_ReturnsShapeMO ==
    (AsymLsDone /\ WellShaped)
        => (Returned /\ result.ndim = 2
            /\ Shape(result) = <<Len(als.X.v[1]), Len(als.y.v[1])>>)

(* C3: for X a column of ones and y strictly increasing, the coefficient   *)
(* returned grows strictly with asym_factor: of two calls on the same X    *)
(* and y, the one with the larger factor returns the larger coefficient.   *)
C3_LocationIncreasesWithFactor ==
    (/\ AsymLsDone /\ WellShaped /\ prev.set
     /\ Len(als.X.v) >= 2
     /\ als.X = Ones(Len(als.X.v), 1)
     /\ Shape(als.y) = <<Len(als.X.v), 1>>
     /\ StrictlyIncreasing(Column(als.y, 1))
     /\ prev.y = als.y
     /\ RLt(prev.asym_factor, als.asym_factor))
        => (/\ prev.outcome = "return" /\ Returned
            /\ RLt(prev.result.v[1][1], result.v[1][1]))

(* C4: when every row of D is a combination of the constant baseline and   *)
(* the supplied background (p_order = 0), emsc returns pretreated data     *)
(* that is zero in every entry.                                            *)
C4_BackgroundSubtractedToZero ==
    (EmscDone /\ em.p_order = 0 /\ RowsInSpan(em.D, em.background))
        => (Returned /\ AllZero(em.D_pretreated))

(* C5: for D of shape (n, m), with or without a background, emsc returns   *)
(* pretreated data of shape (n, m) and coefficients with n rows.           *)
C5_EmscShapes ==
    EmscDone
        => (/\ Returned
            /\ em.D_pretreated.ndim = 2 /\ em.coefficients.ndim = 2
            /\ Shape(em.D_pretreated) = Shape(em.D)
            /\ Shape(em.coefficients)[1] = Len(em.D.v))

(* C6: asym_ls runs exactly o sub-fits, one per column of y, and column k  *)
(* of beta depends on X, column k of y and asym_factor alone: of two calls *)
(* that differ in another column of y, both return the same column k.      *)
C6_IndependentSubFits ==
    (AsymLsDone /\ WellShaped)
        => (/\ Returned
            /\ Len(solves) = Len(als.y.v[1])
            /\ (prev.set /\ prev.asym_factor = als.asym_factor)
                   => \A k \in 1..Len(als.y.v[1]) :
                          Column(prev.y, k) = Column(als.y, k)
                              => (/\ prev.outcome = "return"
                                  /\ Column(prev.result, k) = Column(result, k)))

(* C7: when X and y have different row counts (y of a single row          *)
(* included), the call ends in an error and never returns coefficients.    *)
C7_RowMismatchNeverReturns ==
    (fn = "asym_ls" /\ RowMismatch)
        => (/\ ~Returned
            /\ result = NoneVal
            /\ pc = "done" => outcome \in {"NameError", "IndexError",
                                           "ValueError", "LinAlgError"})

(* C7, its case: X of two rows against y of a single row, the call ended. *)
C7_Witness ==
    /\ AsymLsDone /\ RowMismatch
    /\ Len(als.X.v) = 2 /\ als.y.ndim = 2 /\ Len(als.y.v) = 1
    /\ outcome = "NameError"

(* C8: the reweighting loop of every response column ends after at least 1 *)
(* and at most 10 weighted least-squares solves.                           *)
C8_OneToTenSolvesPerColumn ==
    (AsymLsDone /\ WellShaped)
        => (/\ Len(solves) = Len(als.y.v[1])
            /\ \A k \in 1..Len(solves) : solves[k] >= 1 /\ solves[k] <= max_cycles)

(* C9: with asym_factor = 0.5, asym_ls performs exactly one weighted       *)
(* least-squares solve per response column.                                *)
C9_SymmetricSolvesOnce ==
    (AsymLsDone /\ WellShaped /\ als.asym_factor = Half)
        => (/\ Len(solves) = Len(als.y.v[1])
            /\ \A k \in 1..Len(solves) : solves[k] = 1)

---------------------------------------------------------------------------
(* Observations under SpecBound, with n_regressions bound to o: what the   *)
(* loop of lines 66-85 does where it runs to the end (m = o = 1).          *)

LoopRan ==
    /\ AsymLsDone /\ Returned /\ WellShaped
    /\ n_regressions.value = als.o /\ als.m = 1 /\ als.o = 1

(* The first solve uses unit weights, so asym_factor = 0.5 changes every   *)
(* weight once and a second solve follows (compare C9).                    *)
BoundSymmetricSolvesTwice ==
    (LoopRan /\ als.asym_factor = Half) => solves = <<2>>

(* On an exit before the cap the weights of the final solve are the        *)
(* weights of its own residuals (compare C10).                             *)
BoundFixedPointOnEarlyExit ==
    (LoopRan /\ als.cycle < max_cycles)
        => als.w = NewWeights(Residuals(als.X, als.y, result), als.asym_factor)

(* Violated under SpecBound: a y of a single row is broadcast against the  *)
(* rows of X at lines 77 and 81 and the call returns (compare C7).         *)
BoundSingleRowYRaises ==
    (AsymLsDone /\ RowMismatch /\ Len(als.y.v) = 1 /\ als.y.ndim = 2
     /\ n_regressions.value = 1 /\ Shape(als.X)[2] = 1 /\ Shape(als.y)[2] = 1)
        => ~Returned

====
